---- MODULE Spec2Model ----
(***************************************************************************)
(* A model of the config-panel engine of src/yunohost/utils/config.py:     *)
(* the schema loader (_get_config_panel), the controller operations        *)
(* ConfigPanel.get and ConfigPanel.set, and the typed questions that       *)
(* resolve answers (Question.ask_if_needed and its subclasses).            *)
(*                                                                         *)
(* A call of set is followed through the points where the outside world    *)
(* acts on it: every prompt of the interactive loop, the write of the      *)
(* settings file, every service reload and the final success mark.  A      *)
(* call of get reads no outside input and is one step.                     *)
(*                                                                         *)
(* Python values are records of one shape; strings are sequences of        *)
(* one-character strings so that strip, lower, isdigit, split and join     *)
(* are computed the way Python computes them.                              *)
(***************************************************************************)
EXTENDS Integers, Sequences, FiniteSets, TLC

VARIABLES
    toml,          \* name of the description file at config_path
    save_mode,     \* "full" or "diff", the subclass attribute
    disk,          \* the settings file at save_path: option id -> value
    config,        \* self.config: the loaded (filtered) tree
    filter_key,    \* self.filter_key, as its segments
    values,        \* self.values
    new_values,    \* self.new_values (never reset by the code)
    args,          \* self.args
    upload_dirs,   \* FileQuestion.upload_dirs, the process-wide registry
    fs_dirs,       \* the temporary directories that exist on the file system
    answers,       \* BooleanQuestion.yes_answers / no_answers (class lists)
    pc,            \* position of the running call
    call,          \* the arguments of the running call
    oplog,         \* state of the operation logger handed to set
    ask,           \* the answer-resolution loop: section, option, attempt, value
    todo,          \* services still to reload
    outcome,       \* how the last call ended: exception raised, value returned
    hist,          \* what the running call has done so far (observation only)
    probe          \* the last direct call of a normalize / humanize static method

vars == << toml, save_mode, disk, config, filter_key, values, new_values, args,
           upload_dirs, fs_dirs, answers, pc, call, oplog, ask, todo, outcome, hist,
           probe >>

----------------------------------------------------------------------------
(* Python values *)

None == [k |-> "none", n |-> 0, s |-> <<>>, l |-> <<>>]

IntV(i) == [k |-> "int", n |-> i, s |-> <<>>, l |-> <<>>]

StrV(cs) == [k |-> "str", n |-> 0, s |-> cs, l |-> <<>>]

ListV(xs) == [k |-> "list", n |-> 0, s |-> <<>>, l |-> xs]

\* value in [None, ""]
IsEmpty(v) == v = None \/ v = StrV(<<>>)

\* Python truthiness: "if not self.value"
Truthy(v) ==
    CASE v.k = "none" -> FALSE
      [] v.k = "int"  -> v.n # 0
      [] v.k = "str"  -> v.s # <<>>
      [] OTHER        -> v.l # <<>>

----------------------------------------------------------------------------
(* Strings as sequences of characters *)

Upper == << "A","B","C","D","E","F","G","H","I","J","K","L","M",
            "N","O","P","Q","R","S","T","U","V","W","X","Y","Z" >>

LowerCs == << "a","b","c","d","e","f","g","h","i","j","k","l","m",
              "n","o","p","q","r","s","t","u","v","w","x","y","z" >>

Digits == << "0","1","2","3","4","5","6","7","8","9" >>

Whitespace == { " ", "\t", "\n" }

IndexOf(c, seq) == IF \E i \in 1..Len(seq) : seq[i] = c
                   THEN CHOOSE i \in 1..Len(seq) : seq[i] = c
                   ELSE 0

LowerChar(c) == IF IndexOf(c, Upper) > 0 THEN LowerCs[IndexOf(c, Upper)] ELSE c

\* str.lower()
StrLower(cs) == [i \in 1..Len(cs) |-> LowerChar(cs[i])]

RECURSIVE LStrip(_)
LStrip(cs) == IF cs # <<>> /\ Head(cs) \in Whitespace THEN LStrip(Tail(cs)) ELSE cs

RECURSIVE RStrip(_)
RStrip(cs) == IF cs # <<>> /\ cs[Len(cs)] \in Whitespace
              THEN RStrip(SubSeq(cs, 1, Len(cs) - 1)) ELSE cs

\* str.strip()
StrStrip(cs) == RStrip(LStrip(cs))

\* str.isdigit(): non-empty and every character a digit
IsDigitStr(cs) == cs # <<>> /\ \A i \in 1..Len(cs) : IndexOf(cs[i], Digits) > 0

RECURSIVE ParseDigits(_)
ParseDigits(cs) == IF cs = <<>> THEN 0
                   ELSE 10 * ParseDigits(SubSeq(cs, 1, Len(cs) - 1))
                        + (IndexOf(cs[Len(cs)], Digits) - 1)

RECURSIVE NatDigits(_)
NatDigits(i) == IF i < 10 THEN << Digits[i + 1] >>
                ELSE NatDigits(i \div 10) \o << Digits[(i % 10) + 1] >>

\* str(int)
IntStr(i) == IF i < 0 THEN << "-" >> \o NatDigits(0 - i) ELSE NatDigits(i)

\* str.split(",")
RECURSIVE SplitComma(_)
SplitComma(cs) ==
    IF IndexOf(",", cs) = 0 THEN << cs >>
    ELSE << SubSeq(cs, 1, IndexOf(",", cs) - 1) >>
         \o SplitComma(SubSeq(cs, IndexOf(",", cs) + 1, Len(cs)))

\* ",".join(list)
RECURSIVE JoinComma(_)
JoinComma(xs) == IF xs = <<>> THEN <<>>
                 ELSE IF Len(xs) = 1 THEN xs[1]
                 ELSE xs[1] \o << "," >> \o JoinComma(Tail(xs))

\* repr of the items of a list of strings: 'a', 'b'
RECURSIVE ReprItems(_)
ReprItems(xs) == IF xs = <<>> THEN <<>>
                 ELSE << "'" >> \o xs[1] \o << "'" >>
                      \o (IF Len(xs) = 1 THEN <<>> ELSE << ",", " " >> \o ReprItems(Tail(xs)))

\* str(value)
PyStr(v) ==
    CASE v.k = "none" -> << "N","o","n","e" >>
      [] v.k = "int"  -> IntStr(v.n)
      [] v.k = "str"  -> v.s
      [] OTHER        -> << "[" >> \o ReprItems(v.l) \o << "]" >>

----------------------------------------------------------------------------
(* String literals used by the descriptions and the requests *)

S_yes == << "y","e","s" >>

S_no == << "n","o" >>

S_maybe == << "m","a","y","b","e" >>

S_abc == << "a","b","c" >>

S_7 == << "7" >>

S_file == << "/","f" >>

S_nofile == << "/","x" >>

S_secret == << "s","3","c" >>

S_hunter == << "h","u","n","t","e","r" >>

S_mask == << "*","*","*","*","*","*","*","*","*","*","*","*","*","*" >>

S_b64 == << "Y","Q","=","=" >>

S_tmp == << "/","t","m","p","/" >>

----------------------------------------------------------------------------
(* Exceptions *)

NoErr == [cls |-> "none", key |-> ""]

Err(c, m) == [cls |-> c, key |-> m]

\* YunohostValidationError is a subclass of YunohostError
IsYunohostError(e) == e.cls \in { "YunohostError", "YunohostValidationError" }

----------------------------------------------------------------------------
(* The description file: the nested mapping read_toml returns, with the   *)
(* child nodes of every level (the sub-mappings that are not a property   *)
(* of the level) already told apart from the properties.                   *)

\* An option as the description declares it.  has_default / has_current say
\* whether the keys "default" / "current_value" are in the option's dict;
\* optional is "unset" when the key is missing.
RawOption(id, type) ==
    [ id |-> id, type |-> type,
      has_default |-> FALSE, default |-> None,
      optional |-> "unset", redact |-> FALSE,
      yes |-> IntV(1), no |-> IntV(0),
      bind |-> "unset",
      has_current |-> FALSE, current_value |-> None ]

RawSection(id, opts) ==
    [ id |-> id, services |-> {}, optional |-> "unset", options |-> opts ]

RawPanel(id, secs) ==
    [ id |-> id, services |-> {}, sections |-> secs ]

\* float(version) is kept in tenths: 10 is version 1.0
CONFIG_PANEL_VERSION_SUPPORTED == 10

RawToml(version, panels) == [ version |-> version, panels |-> panels ]

WithDefault(o, d) == [o EXCEPT !.has_default = TRUE, !.default = d]

\* one panel p1, one section s1, one boolean option o1, no default
TomlBool ==
    RawToml(10, << RawPanel("p1", << RawSection("s1",
        << RawOption("o1", "boolean") >>) >>) >>)

\* the main description: a file and a number with a default in one section,
\* a redact-flagged string and a password in another; services at panel and
\* section level
TomlMain ==
    RawToml(10, <<
        [ RawPanel("main", <<
            [ RawSection("s1", <<
                RawOption("f1", "file"),
                WithDefault(RawOption("n1", "number"), IntV(5)) >>)
              EXCEPT !.services = { "ssh" } ],
            RawSection("s2", <<
                [ RawOption("tok", "string") EXCEPT !.redact = TRUE ],
                RawOption("pw", "password") >>) >>)
          EXCEPT !.services = { "nginx" } ] >>)

\* the first panel's only section declares no option; the second panel has one
TomlFirstEmpty ==
    RawToml(10, <<
        RawPanel("p1", << RawSection("s1", << >>) >>),
        RawPanel("p2", << RawSection("s2", <<
            WithDefault(RawOption("o2", "string"), StrV(S_abc)) >>) >>) >>)

\* two sections declare an option with the same id
TomlDup ==
    RawToml(10, << RawPanel("p1", <<
        RawSection("s1", << WithDefault(RawOption("o1", "string"), StrV(S_abc)) >>),
        RawSection("s2", << WithDefault(RawOption("o1", "number"), IntV(5)) >>) >>) >>)

\* an option whose id is a reserved keyword
TomlReserved ==
    RawToml(10, << RawPanel("p1", << RawSection("s1", <<
        WithDefault(RawOption("o1", "string"), StrV(S_abc)),
        WithDefault(RawOption("type", "string"), StrV(S_abc)) >>) >>) >>)

\* version = "0.5": older than the supported version
TomlOlder ==
    RawToml(5, << RawPanel("p1", << RawSection("s1", <<
        WithDefault(RawOption("o1", "string"), StrV(S_abc)) >>) >>) >>)

\* version = "2.0": newer than the supported version
TomlNewer ==
    RawToml(20, << RawPanel("p1", << RawSection("s1", <<
        WithDefault(RawOption("o1", "string"), StrV(S_abc)) >>) >>) >>)

\* a password option that declares a default
TomlPwDefault ==
    RawToml(10, << RawPanel("p1", << RawSection("s1", <<
        WithDefault(RawOption("o1", "password"), StrV(S_hunter)) >>) >>) >>)

\* the description files the model draws config_path from; "absent" is a
\* config_path that does not exist
TomlNames ==
    { "bool", "main", "first_empty", "dup", "reserved", "older", "newer",
      "pw_default", "absent" }

TomlExists(name) == name # "absent"

\* read_toml(self.config_path)
ReadToml(name) ==
    CASE name = "bool"        -> TomlBool
      [] name = "main"        -> TomlMain
      [] name = "first_empty" -> TomlFirstEmpty
      [] name = "dup"         -> TomlDup
      [] name = "older"       -> TomlOlder
      [] name = "newer"       -> TomlNewer
      [] name = "pw_default"  -> TomlPwDefault
      [] OTHER                -> TomlReserved

----------------------------------------------------------------------------
(* Walks over the loaded tree *)

\* sequence concatenation of a sequence of sequences
RECURSIVE Flatten(_)
Flatten(ss) == IF ss = <<>> THEN <<>> ELSE Head(ss) \o Flatten(Tail(ss))

\* SelectSeq with a predicate given as a set of allowed elements
RECURSIVE Keep(_, _)
Keep(seq, ok) == IF seq = <<>> THEN <<>>
                 ELSE (IF Head(seq) \in ok THEN << Head(seq) >> ELSE <<>>)
                      \o Keep(Tail(seq), ok)

\* the sections of the tree, in order: self._iterate(["section"])
SectionsOf(cfg) == Flatten([i \in 1..Len(cfg.panels) |-> cfg.panels[i].sections])

\* the options of the tree, in order: self._iterate()
OptionsOf(cfg) ==
    LET secs == SectionsOf(cfg)
    IN  Flatten([i \in 1..Len(secs) |-> secs[i].options])

\* (panel id, section id, option) for every option: self._iterate()
Paths(cfg) ==
    Flatten([i \in 1..Len(cfg.panels) |->
        Flatten([j \in 1..Len(cfg.panels[i].sections) |->
            [k \in 1..Len(cfg.panels[i].sections[j].options) |->
                [ panel |-> cfg.panels[i].id,
                  section |-> cfg.panels[i].sections[j].id,
                  option |-> cfg.panels[i].sections[j].options[k] ]]])])

OptionIds(cfg) == { OptionsOf(cfg)[i].id : i \in 1..Len(OptionsOf(cfg)) }

----------------------------------------------------------------------------
(* The schema loader: ConfigPanel._get_config_panel *)

\* self.config after __init__: the empty dict
EmptyConfig == [ loaded |-> FALSE, version |-> 0, panels |-> <<>> ]

\* a loader that prunes panels only: sections and options are never filtered
KeptBy_PanelsOnly(fk, depth, id) ==
    IF depth = 1 /\ Len(fk) >= depth /\ fk[depth] # "" THEN id = fk[depth] ELSE TRUE

\* search_key = filter_key[i] if len(filter_key) > i else False;
\* a child is kept unless "search_key and key != search_key"
KeptBy(fk, depth, id) ==
    IF Len(fk) >= depth /\ fk[depth] # "" THEN id = fk[depth] ELSE TRUE

\* _build_internal_config_panel(value, "options"): an option node; the
\* caller sets name = id and optional defaults to the section's "optional"
BuildOption(rawsec, o) ==
    [o EXCEPT !.optional =
        IF o.optional # "unset" THEN o.optional
        ELSE IF rawsec.optional # "unset" THEN rawsec.optional ELSE "true"]

\* _build_internal_config_panel(value, "sections")
BuildSection(fk, s) ==
    LET kept == { i \in 1..Len(s.options) : KeptBy(fk, 3, s.options[i].id) }
        idx  == Keep([i \in 1..Len(s.options) |-> i], kept)
    IN  [ id |-> s.id, services |-> s.services,
          optional |-> IF s.optional = "unset" THEN "true" ELSE s.optional,
          options |-> [i \in 1..Len(idx) |-> BuildOption(s, s.options[idx[i]])] ]

\* _build_internal_config_panel(value, "panels")
BuildPanel(fk, p) ==
    LET kept == { i \in 1..Len(p.sections) : KeptBy(fk, 2, p.sections[i].id) }
        idx  == Keep([i \in 1..Len(p.sections) |-> i], kept)
    IN  [ id |-> p.id, services |-> p.services,
          sections |-> [i \in 1..Len(idx) |-> BuildSection(fk, p.sections[idx[i]])] ]

\* _build_internal_config_panel(toml_config_panel, "root")
BuildInternalConfigPanel(fk, raw) ==
    LET kept == { i \in 1..Len(raw.panels) : KeptBy(fk, 1, raw.panels[i].id) }
        idx  == Keep([i \in 1..Len(raw.panels) |-> i], kept)
    IN  [ loaded |-> TRUE, version |-> raw.version,
          panels |-> [i \in 1..Len(idx) |-> BuildPanel(fk, raw.panels[idx[i]])] ]

\* self.config["panels"][0]["sections"][0]["options"][0] raises neither
\* KeyError nor IndexError
FirstPathExists(cfg) ==
    /\ Len(cfg.panels) > 0
    /\ Len(cfg.panels[1].sections) > 0
    /\ Len(cfg.panels[1].sections[1].options) > 0

\* forbidden_keywords, then += format_description["sections"], which adds
\* the keys of that dict
ForbiddenKeywords ==
    { "old", "app", "changed", "file_hash", "binds", "types", "formats",
      "getter", "setter", "short_setting", "type", "bind", "nothing_changed",
      "changes_validated", "result", "max_progression",
      "properties", "defaults" }

\* the version check of _get_config_panel
VersionSupported(raw) == ~ (raw.version < CONFIG_PANEL_VERSION_SUPPORTED)

\* _get_config_panel: the exception it raises (NoErr when it returns) and
\* self.config as it leaves it
GetConfigPanel(name, fk, old) ==
    IF Len(fk) > 3
    THEN [ err |-> Err("YunohostError", "filter_key_too_many_sublevels"), config |-> old ]
    ELSE IF ~ TomlExists(name)
    THEN [ err |-> NoErr, config |-> old ]
    ELSE LET raw == ReadToml(name)
             cfg == BuildInternalConfigPanel(fk, raw)
         IN  IF ~ VersionSupported(raw)
             THEN [ err |-> Err("YunohostError", "config_version_not_supported"),
                    config |-> old ]
             ELSE IF ~ FirstPathExists(cfg)
             THEN [ err |-> Err("YunohostValidationError", "config_unknown_filter_key"),
                    config |-> cfg ]
             ELSE IF OptionIds(cfg) \cap ForbiddenKeywords # {}
             THEN [ err |-> Err("YunohostError", "config_forbidden_keyword"),
                    config |-> cfg ]
             ELSE [ err |-> NoErr, config |-> cfg ]

----------------------------------------------------------------------------
(* Mappings (Python dicts keyed by option id) *)

EmptyMap == [x \in {} |-> None]

\* {**a, **b}: dict.update
Update(a, b) ==
    [x \in DOMAIN a \cup DOMAIN b |-> IF x \in DOMAIN b THEN b[x] ELSE a[x]]

\* d.get(key), with None for a missing key
Get(d, key) == IF key \in DOMAIN d THEN d[key] ELSE None

\* a dict built from (id, value) pairs in order: a later pair overrides
RECURSIVE FromPairs(_)
FromPairs(ps) ==
    IF ps = <<>> THEN EmptyMap
    ELSE Update(FromPairs(SubSeq(ps, 1, Len(ps) - 1)),
                [x \in { ps[Len(ps)][1] } |-> ps[Len(ps)][2]])

----------------------------------------------------------------------------
(* Current values and hydration *)

\* ConfigPanel._get_default_values
GetDefaultValues(cfg) ==
    LET opts == OptionsOf(cfg)
        with == Keep([i \in 1..Len(opts) |-> i],
                     { i \in 1..Len(opts) : opts[i].has_default })
    IN  FromPairs([i \in 1..Len(with) |-> << opts[with[i]].id, opts[with[i]].default >>])

\* ConfigPanel._load_current_values: the defaults, updated with the file
LoadCurrentValues(cfg, on_disk) == Update(GetDefaultValues(cfg), on_disk)

AllowedEmptyTypes == { "alert", "display_text", "markdown", "file" }

\* the options _hydrate cannot give a value to
Uninitialized(cfg, vals) ==
    { i \in 1..Len(OptionsOf(cfg)) :
        LET o == OptionsOf(cfg)[i]
        IN  /\ o.id \notin DOMAIN vals
            /\ ~ (o.type \in AllowedEmptyTypes \/ o.bind = "null") }

HydrateOption(o, vals) ==
    IF o.id \in DOMAIN vals
    THEN [o EXCEPT !.has_current = TRUE, !.current_value = vals[o.id]]
    ELSE o

\* ConfigPanel._hydrate: the exception it raises and the hydrated tree.
\* (After a raise the tree is not read again: the next call rebuilds it.)
Hydrate(cfg, vals) ==
    [ err |-> IF Uninitialized(cfg, vals) # {}
              THEN Err("YunohostError", "should_be_initialized")
              ELSE NoErr,
      config |->
        [cfg EXCEPT !.panels =
            [i \in 1..Len(cfg.panels) |->
                [cfg.panels[i] EXCEPT !.sections =
                    [j \in 1..Len(cfg.panels[i].sections) |->
                        [cfg.panels[i].sections[j] EXCEPT !.options =
                            [k \in 1..Len(cfg.panels[i].sections[j].options) |->
                                HydrateOption(cfg.panels[i].sections[j].options[k],
                                              vals)]]]]]] ]

----------------------------------------------------------------------------
(* The question classes: normalize and humanize *)

\* ARGUMENTS_TYPE_PARSERS, for the types the model's descriptions use
QuestionClass(type) ==
    CASE type \in { "string", "text", "select", "unset" } -> "StringQuestion"
      [] type = "tags"      -> "TagsQuestion"
      [] type = "password"  -> "PasswordQuestion"
      [] type = "boolean"   -> "BooleanQuestion"
      [] type \in { "number", "range" } -> "NumberQuestion"
      [] type \in { "display_text", "alert", "markdown" } -> "DisplayTextQuestion"
      [] OTHER              -> "FileQuestion"

\* question_class.hide_user_input_in_prompt
HideUserInputInPrompt(cls) == cls = "PasswordQuestion"

\* BooleanQuestion.yes_answers / no_answers as the class body sets them
FreshAnswers ==
    [ yes |-> { <<"1">>, S_yes, <<"y">>, <<"t","r","u","e">>, <<"t">>, <<"o","n">> },
      no  |-> { <<"0">>, S_no, <<"n">>, <<"f","a","l","s","e">>, <<"f">>, <<"o","f","f">> } ]

\* the result of a normalize / humanize call: the exception raised, the
\* value returned, and the class lists as the call leaves them
Ret(e, v, ans) == [ err |-> e, val |-> v, answers |-> ans ]

StripIfStr(v) == IF v.k = "str" THEN StrV(StrStrip(v.s)) ELSE v

\* Question.normalize
QuestionNormalize(v, o, ans) == Ret(NoErr, StripIfStr(v), ans)

\* TagsQuestion.normalize
TagsNormalize(v, o, ans) ==
    IF v.k = "list" THEN Ret(NoErr, StrV(JoinComma(v.l)), ans)
    ELSE Ret(NoErr, StripIfStr(v), ans)

\* a normalize that hands back the text of the answer, not the yes/no value
BooleanNormalize_Text(v, o, ans) ==
    LET strvalue == StrLower(PyStr(StripIfStr(v)))
    IN  IF strvalue \in ans.yes \cup ans.no THEN Ret(NoErr, StrV(strvalue), ans)
        ELSE IF strvalue \in { <<"n","o","n","e">>, <<>> } THEN Ret(NoErr, None, ans)
        ELSE Ret(Err("YunohostValidationError", "app_argument_choice_invalid"),
                 None, ans)

\* BooleanQuestion.normalize: "no_answers += [...]" extends the class lists
BooleanNormalize(v, o, ans) ==
    LET value    == StripIfStr(v)
        yes_s    == StrLower(PyStr(o.yes))
        no_s     == StrLower(PyStr(o.no))
        after    == [ yes |-> ans.yes \cup { yes_s }, no |-> ans.no \cup { no_s } ]
        strvalue == StrLower(PyStr(value))
    IN  IF yes_s \in ans.no \/ no_s \in ans.yes
        THEN Ret(Err("AssertionError", "yes_no_value"), None, ans)
        ELSE IF strvalue \in after.yes THEN Ret(NoErr, o.yes, after)
        ELSE IF strvalue \in after.no THEN Ret(NoErr, o.no, after)
        ELSE IF strvalue \in { <<"n","o","n","e">>, <<>> } THEN Ret(NoErr, None, after)
        ELSE Ret(Err("YunohostValidationError", "app_argument_choice_invalid"),
                 None, after)

\* NumberQuestion.normalize
NumberNormalize(v, o, ans) ==
    LET value == StripIfStr(v)
    IN  IF v.k = "int" THEN Ret(NoErr, v, ans)
        ELSE IF value.k = "str" /\ IsDigitStr(value.s)
        THEN Ret(NoErr, IntV(ParseDigits(value.s)), ans)
        ELSE IF IsEmpty(value) THEN Ret(NoErr, value, ans)
        ELSE Ret(Err("YunohostValidationError", "app_argument_invalid"), None, ans)

\* question_class.normalize(value, option)
Normalize(cls, v, o, ans) ==
    CASE cls = "TagsQuestion"    -> TagsNormalize(v, o, ans)
      [] cls = "BooleanQuestion" -> BooleanNormalize(v, o, ans)
      [] cls = "NumberQuestion"  -> NumberNormalize(v, o, ans)
      [] OTHER                   -> QuestionNormalize(v, o, ans)

\* Question.humanize
QuestionHumanize(v, o, ans) == Ret(NoErr, StrV(PyStr(v)), ans)

\* TagsQuestion.humanize
TagsHumanize(v, o, ans) ==
    IF v.k = "list" THEN Ret(NoErr, StrV(JoinComma(v.l)), ans) ELSE Ret(NoErr, v, ans)

\* BooleanQuestion.humanize
BooleanHumanize(v, o, ans) ==
    LET r == BooleanNormalize(v, o, ans)
    IN  IF r.err # NoErr THEN r
        ELSE IF r.val = o.yes THEN Ret(NoErr, StrV(S_yes), r.answers)
        ELSE IF r.val = o.no THEN Ret(NoErr, StrV(S_no), r.answers)
        ELSE IF r.val = None THEN Ret(NoErr, StrV(<<>>), r.answers)
        ELSE Ret(Err("YunohostValidationError", "app_argument_choice_invalid"),
                 None, r.answers)

\* question_class.humanize(value, option)
Humanize(cls, v, o, ans) ==
    CASE cls = "TagsQuestion"    -> TagsHumanize(v, o, ans)
      [] cls = "BooleanQuestion" -> BooleanHumanize(v, o, ans)
      [] OTHER                   -> QuestionHumanize(v, o, ans)

----------------------------------------------------------------------------
(* State shared by the operations *)

\* the number of get/set calls a behaviour makes
MaxCalls == 2

NoCall ==
    [ op |-> "none", n |-> 0, key |-> <<>>, mode |-> "classic",
      has_value |-> FALSE, value |-> None,
      has_args |-> FALSE, qs |-> <<>>,
      has_args_file |-> FALSE, args_file |-> EmptyMap,
      iface |-> "api", operation_logger |-> FALSE ]

NoOutcome ==
    [ op |-> "none", status |-> "none", err |-> NoErr, kind |-> "none",
      bare |-> None, mapping |-> EmptyMap, export |-> EmptyMap ]

NoAsk == [ sec |-> 0, opt |-> 0, i |-> 0, value |-> None, out |-> <<>> ]

\* what the running call has done so far; reset when a call starts
NoHist ==
    [ before      |-> EmptyMap,   \* the settings file when the call started
      prev        |-> "none",     \* how the call before this one ended
      load_ok     |-> FALSE,      \* _get_config_panel returned a tree
      disk_read   |-> FALSE,      \* the settings file was read
      disk_written |-> FALSE,     \* the settings file was written
      made        |-> {},         \* upload directories created by the call
      attempts    |-> 0,          \* normalize+prevalidate runs, current option
      prompts     |-> 0,          \* prompts shown, current option
      validated   |-> FALSE,      \* the last normalize+prevalidate run raised nothing
      post_parsed |-> 0,          \* _post_parse_value runs, current option
      failed_at   |-> "none",     \* the step an exception came from
      cleaned     |-> 0,          \* calls of clean_upload_dirs
      reloaded    |-> <<>> ]      \* services reloaded, in order

\* a summary of the call that has just ended, kept by the next call
Summary ==
    IF call.op = "none" THEN "none"
    ELSE IF call.op = "get" THEN "get"
    ELSE IF ~ hist.disk_written THEN "set_unwritten"
    ELSE IF call.has_value THEN "set_value_written"
    ELSE "set_args_written"

Raised(c, e) ==
    [ NoOutcome EXCEPT !.op = c.op, !.status = "raised", !.err = e ]

Returned(c) == [ NoOutcome EXCEPT !.op = c.op, !.status = "returned" ]

\* no static method was called directly
NoProbe ==
    [ fn |-> "none", n |-> 0, cls |-> "none", v |-> None,
      yes |-> IntV(1), no |-> IntV(0), before |-> FreshAnswers,
      r |-> Ret(NoErr, None, FreshAnswers), r2 |-> Ret(NoErr, None, FreshAnswers) ]

\* the settings files a behaviour may start from, per description
InitialDisks(name) ==
    CASE name = "bool" ->
            { EmptyMap, FromPairs(<< << "o1", IntV(0) >> >>) }
      [] name = "main" ->
            { FromPairs(<< << "pw", StrV(S_hunter) >>, << "tok", StrV(S_secret) >> >>),
              FromPairs(<< << "pw", StrV(S_hunter) >>, << "tok", StrV(S_secret) >>,
                           << "n1", IntV(5) >> >>) }
      [] OTHER -> { EmptyMap }

Init ==
    /\ toml \in TomlNames
    /\ save_mode \in { "full", "diff" }
    /\ disk \in InitialDisks(toml)
    /\ config = EmptyConfig
    /\ filter_key = <<>>
    /\ values = EmptyMap
    /\ new_values = EmptyMap
    /\ args = EmptyMap
    /\ upload_dirs = <<>>
    /\ fs_dirs = {}
    /\ answers = FreshAnswers
    /\ pc = "idle"
    /\ call = NoCall
    /\ oplog = "none"
    /\ ask = NoAsk
    /\ todo = {}
    /\ outcome = NoOutcome
    /\ hist = NoHist
    /\ probe = NoProbe

----------------------------------------------------------------------------
(* ConfigPanel.get *)

ReadModes == { "classic", "export", "full" }

\* the filter keys get and set are called with, per description
Keys(name) ==
    CASE name = "main" ->
            { <<>>, << "main", "s2" >>, << "main", "s1", "n1" >>,
              << "main", "s2", "pw" >>, << "nope" >> }
      [] name = "first_empty" ->
            { <<>>, << "p1" >>, << "p2" >>, << "p2", "s2", "o2" >> }
      [] name = "dup" ->
            { <<>>, << "p1", "s1" >>, << "p1", "s2", "o1" >> }
      [] OTHER ->
            { <<>>, << "p1" >>, << "p1", "s1" >>, << "p1", "s1", "o1" >>,
              << "p1", "s1", "zz" >>, << "p1", "s1", "o1", "x" >> }

\* the loop of get in "classic" mode: key -> {"ask": ..., "value": ...},
\* stopped by the first exception humanize raises
RECURSIVE ClassicResult(_, _, _)
ClassicResult(paths, acc, ans) ==
    IF paths = <<>> THEN [ err |-> NoErr, mapping |-> acc, answers |-> ans ]
    ELSE LET p   == Head(paths)
             o   == p.option
             key == << p.panel, p.section, o.id >>
             cls == QuestionClass(o.type)
             h   == Humanize(cls, o.current_value, o, ans)
             entry ==
                IF ~ o.has_current THEN [ has_value |-> FALSE, value |-> None ]
                ELSE IF HideUserInputInPrompt(cls)
                THEN [ has_value |-> TRUE, value |-> StrV(S_mask) ]
                ELSE [ has_value |-> TRUE, value |-> h.val ]
         IN  IF o.has_current /\ h.err # NoErr
             THEN [ err |-> h.err, mapping |-> acc, answers |-> h.answers ]
             ELSE ClassicResult(Tail(paths),
                                Update(acc, [x \in { key } |-> entry]),
                                IF o.has_current THEN h.answers ELSE ans)

\* the loop of get in "export" mode: id -> option.get("current_value")
ExportResult(cfg) ==
    LET opts == OptionsOf(cfg)
    IN  FromPairs([i \in 1..Len(opts) |-> << opts[i].id, opts[i].current_value >>])

\* get(key, mode), one step: load, hydrate, format
GetCall(key, mode) ==
    LET c      == [ NoCall EXCEPT !.op = "get", !.n = call.n + 1,
                                  !.key = key, !.mode = mode ]
        loaded == GetConfigPanel(toml, key, config)
        vals   == LoadCurrentValues(loaded.config, disk)
        hyd    == Hydrate(loaded.config, vals)
        fmt    == ClassicResult(Paths(hyd.config), EmptyMap, answers)
        h0     == [ NoHist EXCEPT !.before = disk, !.prev = Summary ]
        h1     == [ h0 EXCEPT !.load_ok = TRUE, !.disk_read = TRUE ]
    IN  /\ pc = "idle"
        /\ call.n < MaxCalls
        /\ call' = c
        /\ filter_key' = key
        /\ UNCHANGED << probe, toml, save_mode, disk, new_values, args, upload_dirs,
                        fs_dirs, pc, oplog, ask, todo >>
        /\ IF loaded.err # NoErr
           THEN /\ outcome' = Raised(c, loaded.err)
                /\ hist' = [ h0 EXCEPT !.failed_at = "load" ]
                /\ config' = loaded.config
                /\ UNCHANGED << values, answers >>
           ELSE IF ~ loaded.config.loaded
           THEN /\ outcome' = Raised(c, Err("YunohostValidationError", "config_no_panel"))
                /\ hist' = [ h0 EXCEPT !.failed_at = "load" ]
                /\ config' = loaded.config
                /\ UNCHANGED << values, answers >>
           ELSE IF hyd.err # NoErr
           THEN /\ outcome' = Raised(c, hyd.err)
                /\ hist' = [ h1 EXCEPT !.failed_at = "hydrate" ]
                /\ config' = hyd.config
                /\ values' = vals
                /\ UNCHANGED answers
           ELSE /\ config' = hyd.config
                /\ values' = vals
                /\ IF Len(key) = 3 /\ mode = "classic"
                   THEN /\ outcome' = [ Returned(c) EXCEPT !.kind = "bare",
                                            !.bare = Get(vals, key[3]) ]
                        /\ hist' = h1
                        /\ UNCHANGED answers
                   ELSE IF mode = "export"
                   THEN /\ outcome' = [ Returned(c) EXCEPT !.kind = "export",
                                            !.export = ExportResult(hyd.config) ]
                        /\ hist' = h1
                        /\ UNCHANGED answers
                   ELSE IF mode = "full"
                   THEN /\ outcome' = [ Returned(c) EXCEPT !.kind = "tree" ]
                        /\ hist' = h1
                        /\ UNCHANGED answers
                   ELSE /\ answers' = fmt.answers
                        /\ IF fmt.err # NoErr
                           THEN /\ outcome' = Raised(c, fmt.err)
                                /\ hist' = [ h1 EXCEPT !.failed_at = "format" ]
                           ELSE /\ outcome' = [ Returned(c) EXCEPT !.kind = "mapping",
                                                    !.mapping = fmt.mapping ]
                                /\ hist' = h1

DoGet == \E key \in Keys(toml), mode \in ReadModes : GetCall(key, mode)

----------------------------------------------------------------------------
(* One question: construction, _prevalidate, _post_parse_value *)

\* Moulinette.interface.type == "cli" and os.isatty(1)
Interactive(iface) == iface = "tty"

\* os.path.exists(str(value)) for the paths the model uses
PathExists(cs) == cs = S_file

\* b64decode(value) succeeds: the padding is right (the model's strings hold
\* base64 characters only)
B64Decodes(cs) == Len(cs) % 4 = 0

\* the class attribute default_value (None where the class has none)
ClassDefault(cls) ==
    CASE cls \in { "StringQuestion", "PasswordQuestion" } -> StrV(<<>>)
      [] cls = "BooleanQuestion" -> IntV(0)
      [] OTHER -> None

\* question_class(question): the fields __init__ leaves, and what it raises
NewQuestion(o) ==
    LET cls  == QuestionClass(o.type)
        d0   == IF o.has_default /\ o.default # StrV(<<>>) THEN o.default ELSE None
    IN  [ name     |-> o.id,
          cls      |-> cls,
          default  |-> IF cls = "BooleanQuestion" /\ d0 = None THEN o.no ELSE d0,
          optional |-> (cls = "DisplayTextQuestion" \/ o.optional = "true"),
          redact   |-> (cls = "PasswordQuestion" \/ o.redact),
          readonly |-> cls = "DisplayTextQuestion",
          current_value |-> o.current_value,
          err      |-> IF cls = "PasswordQuestion" /\ d0 # None
                       THEN Err("YunohostValidationError",
                                "app_argument_password_no_default")
                       ELSE NoErr ]

Checked(e, v) == [ err |-> e, val |-> v ]

Required == Err("YunohostValidationError", "app_argument_required")

\* Question._prevalidate (the model's options declare no choices or pattern)
BasePrevalidate(q, v) ==
    IF IsEmpty(v) /\ ~ q.optional THEN Checked(Required, v) ELSE Checked(NoErr, v)

\* TagsQuestion._prevalidate: every tag is checked, the value becomes the list
TagsPrevalidate(q, v) ==
    LET tags == IF v.k = "str" THEN SplitComma(v.s)
                ELSE IF v.k = "list" THEN v.l ELSE <<>>
    IN  IF ~ q.optional /\ \E i \in 1..Len(tags) : tags[i] = <<>>
        THEN Checked(Required, v)
        ELSE Checked(NoErr, ListV(tags))

\* PasswordQuestion._prevalidate; strong is the verdict of the external
\* assert_password_is_strong_enough
PasswordPrevalidate(q, v, strong) ==
    IF BasePrevalidate(q, v).err # NoErr THEN BasePrevalidate(q, v)
    ELSE IF IsEmpty(v) THEN Checked(NoErr, v)
    ELSE IF \E i \in 1..Len(v.s) : v.s[i] \in { "{", "}" }
    THEN Checked(Err("YunohostValidationError", "pattern_password_app"), v)
    ELSE IF ~ strong
    THEN Checked(Err("YunohostValidationError", "password_too_simple"), v)
    ELSE Checked(NoErr, v)

\* FileQuestion._prevalidate
FilePrevalidate(q, v, iface) ==
    LET value == IF v = None THEN q.current_value ELSE v
    IN  IF BasePrevalidate(q, value).err # NoErr THEN BasePrevalidate(q, value)
        ELSE IF iface # "api" /\ (~ Truthy(value) \/ ~ PathExists(PyStr(value)))
        THEN Checked(Err("YunohostValidationError", "app_argument_invalid"), value)
        ELSE Checked(NoErr, value)

\* self._prevalidate()
Prevalidate(q, v, iface, strong) ==
    CASE q.cls = "TagsQuestion"     -> TagsPrevalidate(q, v)
      [] q.cls = "PasswordQuestion" -> PasswordPrevalidate(q, v, strong)
      [] q.cls = "FileQuestion"     -> FilePrevalidate(q, v, iface)
      [] OTHER                      -> BasePrevalidate(q, v)

\* FileQuestion._post_parse_value creates a directory for a non-empty value
Materializes(q, v) == q.cls = "FileQuestion" /\ Truthy(v)

\* the directory tempfile.mkdtemp creates: a fresh name
NewDir(registry) == Len(registry) + 1

\* self._post_parse_value(): the value it returns and what it raises
PostParseValue(q, v, iface, registry) ==
    IF q.cls = "FileQuestion"
    THEN IF ~ Truthy(v) THEN Checked(NoErr, v)
         ELSE IF iface = "api" /\ ~ B64Decodes(PyStr(v))
         THEN Checked(Err("Exception", "binascii.Error"), v)
         ELSE Checked(NoErr, StrV(S_tmp \o IntStr(NewDir(registry))))
    ELSE IF q.cls = "TagsQuestion" /\ v.k = "list"
    THEN Checked(NoErr, StrV(JoinComma(v.l)))
    ELSE Checked(NoErr, v)

\* what the user may type at the prompt of a question
PromptInputs(cls) ==
    CASE cls = "BooleanQuestion" -> { StrV(S_yes), StrV(S_maybe) }
      [] cls = "NumberQuestion"  -> { StrV(S_7), StrV(S_abc) }
      [] cls = "FileQuestion"    -> { StrV(S_file), StrV(S_nofile) }
      [] OTHER                   -> { StrV(S_abc) }

\* one pass of the loop of ask_if_needed up to the end of the try block:
\* prompt, default, normalize, prevalidate
Attempt(q, o, v, typed, iface, strong, ans) ==
    LET prompted == Interactive(iface) /\ ~ q.readonly /\ v = None
        v1 == IF prompted THEN typed ELSE v
        cd == ClassDefault(q.cls)
        v2 == IF IsEmpty(v1) /\ (q.default # None \/ cd # None)
              THEN (IF q.default = None THEN cd ELSE q.default)
              ELSE v1
        nz == Normalize(q.cls, v2, o, ans)
        pv == Prevalidate(q, nz.val, iface, strong)
    IN  [ prompted |-> prompted,
          err      |-> IF nz.err # NoErr THEN nz.err ELSE pv.err,
          val      |-> IF nz.err # NoErr THEN v2 ELSE pv.val,
          answers  |-> nz.answers ]

----------------------------------------------------------------------------
(* ConfigPanel.set, up to the start of the answer resolution *)

\* Moulinette.interface.type, with "tty" for "cli" on a terminal
Ifaces == { "api", "cli", "tty" }

Req(key, iface) == [ NoCall EXCEPT !.op = "set", !.key = key, !.iface = iface ]

WithValue(r, cs) == [r EXCEPT !.has_value = TRUE, !.value = StrV(cs)]

WithArgs(r, qs) == [r EXCEPT !.has_args = TRUE, !.qs = qs]

WithArgsFile(r, m) == [r EXCEPT !.has_args_file = TRUE, !.args_file = m]

\* the set calls a behaviour may make, per description
SetRequests(name) ==
    CASE name = "main" ->
            { WithArgs(Req(<< "main", "s1" >>, "cli"),
                       << << "f1", S_file >>, << "n1", S_abc >> >>),
              WithArgs(Req(<< "main", "s1" >>, "cli"),
                       << << "f1", S_file >>, << "n1", S_7 >> >>),
              WithArgs(Req(<< "main", "s1" >>, "api"), << << "f1", S_b64 >> >>),
              WithArgs(Req(<< "main", "s1" >>, "api"), << << "f1", S_file >> >>),
              WithValue(Req(<< "main", "s2", "tok" >>, "api"), S_abc),
              Req(<< "main", "s1" >>, "tty"),
              Req(<< "main", "s2" >>, "tty"),
              WithArgs(Req(<<>>, "cli"), << << "f1", S_file >> >>) }
      [] name = "first_empty" ->
            { Req(<<>>, "api"),
              WithArgs(Req(<< "p2" >>, "api"), << << "o2", S_7 >> >>) }
      [] name = "dup" ->
            { WithArgs(Req(<<>>, "api"), << << "o1", S_7 >> >>),
              Req(<< "p1", "s2" >>, "api") }
      [] name = "bool" ->
            { WithValue(Req(<< "p1", "s1", "o1" >>, "api"), S_yes),
              WithValue(Req(<< "p1", "s1", "o1" >>, "api"), S_maybe),
              Req(<< "p1", "s1", "o1" >>, "tty"),
              Req(<< "p1", "s1", "o1" >>, "cli"),
              WithArgs(Req(<< "p1", "s1" >>, "tty"), << << "o1", S_maybe >> >>),
              WithValue(Req(<< "p1", "s1" >>, "api"), S_yes),
              WithValue(Req(<<>>, "api"), S_yes),
              WithArgs(WithValue(Req(<< "p1", "s1", "o1" >>, "api"), S_yes),
                       << << "o1", S_no >> >>),
              WithArgsFile(WithValue(Req(<< "p1", "s1", "o1" >>, "api"), S_yes),
                           FromPairs(<< << "o1", IntV(0) >> >>)),
              WithArgsFile(Req(<< "p1", "s1" >>, "api"),
                           FromPairs(<< << "o1", IntV(1) >> >>)),
              WithValue(Req(<< "p1", "s1", "o1", "x" >>, "api"), S_yes),
              WithValue(Req(<< "p1", "s1", "zz" >>, "api"), S_yes) }
      [] OTHER -> { Req(<<>>, "api"),
                    WithValue(Req(<< "p1", "s1", "o1" >>, "api"), S_abc) }

\* urllib.parse.parse_qs(args), then {key: ",".join(values)}; qs holds the
\* decoded (key, value) pairs of the query string in order
ParseQs(qs) ==
    [ x \in { qs[i][1] : i \in 1..Len(qs) } |->
        LET at == Keep([i \in 1..Len(qs) |-> i], { i \in 1..Len(qs) : qs[i][1] = x })
        IN  StrV(JoinComma([i \in 1..Len(at) |-> qs[at[i]][2]])) ]

\* self.args as set builds it from args, args_file and value
BuildArgs(c) ==
    LET a0 == IF c.has_args THEN ParseQs(c.qs) ELSE EmptyMap
        a1 == IF c.has_args_file THEN Update(c.args_file, a0) ELSE a0
    IN  IF c.has_value
        THEN [x \in { IF c.key = <<>> THEN "" ELSE c.key[Len(c.key)] } |-> c.value]
        ELSE a1

\* set without its check of value against the depth of the filter key
CheckSetArgs_AnyDepth(c) ==
    IF (c.has_args \/ c.has_args_file) /\ c.has_value
    THEN Err("YunohostValidationError", "value_and_args")
    ELSE NoErr

\* the two checks of set on value, args and args_file
CheckSetArgs(c) ==
    IF (c.has_args \/ c.has_args_file) /\ c.has_value
    THEN Err("YunohostValidationError", "value_and_args")
    ELSE IF Len(c.key) # 3 /\ c.has_value
    THEN Err("YunohostValidationError", "config_cant_set_value_on_section")
    ELSE NoErr

\* the position of _ask at the first option of section s
EnterSection(cfg, a, s) ==
    [ sec |-> s, opt |-> 1, i |-> 0,
      value |-> Get(a, SectionsOf(cfg)[s].options[1].id), out |-> <<>> ]

\* set(...) from its first line to the call of _ask
SetCall(r, logger) ==
    LET c      == [ r EXCEPT !.n = call.n + 1, !.operation_logger = logger ]
        loaded == GetConfigPanel(toml, c.key, config)
        vals   == LoadCurrentValues(loaded.config, disk)
        hyd    == Hydrate(loaded.config, vals)
        h0     == [ NoHist EXCEPT !.before = disk, !.prev = Summary ]
        h1     == [ h0 EXCEPT !.load_ok = TRUE ]
        h2     == [ h1 EXCEPT !.disk_read = TRUE ]
        fails(e, h, where) ==
            /\ outcome' = Raised(c, e)
            /\ hist' = [ h EXCEPT !.failed_at = where ]
            /\ UNCHANGED << pc, ask >>
    IN  /\ pc = "idle"
        /\ call.n < MaxCalls
        /\ call' = c
        /\ filter_key' = c.key
        /\ oplog' = IF logger THEN "created" ELSE "none"
        /\ UNCHANGED << probe, toml, save_mode, disk, new_values, upload_dirs, fs_dirs,
                        answers, todo >>
        /\ IF loaded.err # NoErr
           THEN /\ fails(loaded.err, h0, "load")
                /\ config' = loaded.config
                /\ UNCHANGED << values, args >>
           ELSE IF ~ loaded.config.loaded
           THEN /\ fails(Err("YunohostValidationError", "config_no_panel"), h0, "load")
                /\ config' = loaded.config
                /\ UNCHANGED << values, args >>
           ELSE IF CheckSetArgs(c) # NoErr
           THEN /\ fails(CheckSetArgs(c), h1, "check")
                /\ config' = loaded.config
                /\ UNCHANGED << values, args >>
           ELSE /\ args' = BuildArgs(c)
                /\ values' = vals
                /\ config' = hyd.config
                /\ IF hyd.err # NoErr
                   THEN fails(hyd.err, h2, "hydrate")
                   ELSE /\ outcome' = NoOutcome
                        /\ hist' = h2
                        /\ pc' = "ask"
                        /\ ask' = EnterSection(hyd.config, BuildArgs(c), 1)

DoSet == \E r \in SetRequests(toml), logger \in BOOLEAN : SetCall(r, logger)

----------------------------------------------------------------------------
(* ConfigPanel._ask: one pass of ask_if_needed per step *)

\* question.value for question.value is not None, in order
Answered(out) ==
    FromPairs(Keep(out, { out[i] : i \in { j \in 1..Len(out) : out[j][2] # None } }))

\* the call ends with exception e raised from step where
Raise(e, where, h) ==
    /\ outcome' = Raised(call, e)
    /\ hist' = [ h EXCEPT !.failed_at = where ]
    /\ pc' = "idle"
    /\ ask' = NoAsk

\* a loop that re-asks once more: "i < 5"
MayRetry_OneMore(e, i, iface) ==
    e.cls = "YunohostValidationError" /\ i < 5 /\ Interactive(iface)

\* the except clause of ask_if_needed re-asks: "i < 4" on an interactive cli
MayRetry(e, i, iface) ==
    e.cls = "YunohostValidationError" /\ i < 4 /\ Interactive(iface)

\* a loop that leaves the try block for _post_parse_value whenever it does
\* not re-ask
AfterAttempt_NeverRaises(e, i, iface) ==
    IF e # NoErr /\ MayRetry(e, i, iface) THEN "retry" ELSE "post_parse"

\* a loop that raises the validation error only at a prompt, and goes on with
\* the refused answer otherwise
AfterAttempt_RaisesAtPromptOnly(e, i, iface) ==
    IF e = NoErr THEN "post_parse"
    ELSE IF MayRetry(e, i, iface) THEN "retry"
    ELSE IF Interactive(iface) THEN "raise"
    ELSE "post_parse"

\* how a pass of the loop of ask_if_needed ends: "continue" (retry), "raise",
\* or "break", which leads to _post_parse_value
AfterAttempt(e, i, iface) ==
    IF e = NoErr THEN "post_parse"
    ELSE IF MayRetry(e, i, iface) THEN "retry"
    ELSE "raise"

\* the pass i of the loop of ask_if_needed for the current option, with
\* what follows it: the retry, the raise, or _post_parse_value and the move
\* to the next option (new_values is updated at the end of each section)
AskStep(typed, strong) ==
    LET secs  == SectionsOf(config)
        sec   == secs[ask.sec]
        o     == sec.options[ask.opt]
        q     == NewQuestion(o)
        a     == Attempt(q, o, ask.value, typed, call.iface, strong, answers)
        first == ask.i = 0
        h0    == IF first THEN [ hist EXCEPT !.attempts = 0, !.prompts = 0,
                                             !.validated = FALSE,
                                             !.post_parsed = 0 ]
                 ELSE hist
        h1    == [ h0 EXCEPT !.attempts = @ + 1,
                             !.prompts = @ + (IF a.prompted THEN 1 ELSE 0),
                             !.validated = (a.err = NoErr) ]
        after == AfterAttempt(a.err, ask.i, call.iface)
        pp    == PostParseValue(q, a.val, call.iface, upload_dirs)
        mat   == Materializes(q, a.val)
        h2    == [ h1 EXCEPT !.post_parsed = @ + 1,
                             !.made = IF mat THEN @ \cup { NewDir(upload_dirs) } ELSE @ ]
        out2  == Append(ask.out, << q.name, pp.val >>)
        nv    == Update(new_values, Answered(out2))
    IN  /\ pc = "ask"
        /\ UNCHANGED << probe, toml, save_mode, disk, config, filter_key, values, args,
                        call, oplog, todo >>
        /\ IF first /\ q.err # NoErr
           THEN /\ Raise(q.err, "ask", h0)
                /\ UNCHANGED << new_values, upload_dirs, fs_dirs, answers >>
           ELSE IF after # "post_parse"
           THEN /\ answers' = a.answers
                /\ UNCHANGED << new_values, upload_dirs, fs_dirs >>
                /\ IF after = "retry"
                   THEN /\ ask' = [ ask EXCEPT !.i = @ + 1, !.value = None ]
                        /\ hist' = h1
                        /\ UNCHANGED << pc, outcome >>
                   ELSE Raise(a.err, "ask", h1)
           ELSE /\ answers' = a.answers
                /\ upload_dirs' = IF mat THEN Append(upload_dirs, NewDir(upload_dirs))
                                  ELSE upload_dirs
                /\ fs_dirs' = IF mat THEN fs_dirs \cup { NewDir(upload_dirs) }
                              ELSE fs_dirs
                /\ IF pp.err # NoErr
                   THEN /\ Raise(pp.err, "ask", h2)
                        /\ UNCHANGED new_values
                   ELSE IF ask.opt < Len(sec.options)
                   THEN /\ ask' = [ sec |-> ask.sec, opt |-> ask.opt + 1, i |-> 0,
                                    value |-> Get(args, sec.options[ask.opt + 1].id),
                                    out |-> out2 ]
                        /\ hist' = h2
                        /\ UNCHANGED << new_values, pc, outcome >>
                   ELSE /\ new_values' = nv
                        /\ IF ask.sec = Len(secs)
                           THEN /\ pc' = "apply"
                                /\ ask' = NoAsk
                                /\ hist' = h2
                                /\ UNCHANGED outcome
                           ELSE IF Len(secs[ask.sec + 1].options) = 0
                           THEN Raise(Err("KeyError", "options"), "ask", h2)
                           ELSE /\ ask' = EnterSection(config, args, ask.sec + 1)
                                /\ hist' = h2
                                /\ UNCHANGED << pc, outcome >>

\* the current question is about to prompt
WillPrompt ==
    /\ pc = "ask"
    /\ LET q == NewQuestion(SectionsOf(config)[ask.sec].options[ask.opt])
       IN  /\ ~ (ask.i = 0 /\ q.err # NoErr)
           /\ Interactive(call.iface) /\ ~ q.readonly /\ ask.value = None

\* the verdicts the password check may give on the current question
Verdicts ==
    IF QuestionClass(SectionsOf(config)[ask.sec].options[ask.opt].type)
       = "PasswordQuestion"
    THEN BOOLEAN ELSE { TRUE }

DoAsk ==
    /\ pc = "ask"
    /\ \E strong \in Verdicts :
        \E typed \in IF WillPrompt
                     THEN PromptInputs(QuestionClass(
                            SectionsOf(config)[ask.sec].options[ask.opt].type))
                     ELSE { None } :
            AskStep(typed, strong)

\* Ctrl-C or end of input at the prompt: KeyboardInterrupt / EOFError leaves
\* _ask, which set calls outside its try block
AskInterrupt ==
    /\ WillPrompt
    /\ Raise(Err("KeyboardInterrupt", "prompt"), "ask",
             IF ask.i = 0 THEN [ hist EXCEPT !.attempts = 0, !.prompts = 1,
                                             !.validated = FALSE,
                                             !.post_parsed = 0 ]
             ELSE [ hist EXCEPT !.prompts = @ + 1 ])
    /\ UNCHANGED << probe, toml, save_mode, disk, config, filter_key, values, new_values,
                    args, upload_dirs, fs_dirs, answers, call, oplog, todo >>

----------------------------------------------------------------------------
(* ConfigPanel.set from operation_logger.start() on *)

Range(seq) == { seq[i] : i \in 1..Len(seq) }

\* what _apply hands to write_to_yaml
ValuesToSave(cfg, mode, vals, nvals) ==
    LET all      == Update(vals, nvals)
        defaults == GetDefaultValues(cfg)
    IN  IF mode = "diff"
        THEN [ x \in { y \in DOMAIN all : Get(defaults, y) # all[y] } |-> all[x] ]
        ELSE all

\* FileQuestion.clean_upload_dirs: the directories left on the file system
CleanUploadDirs(dirs, registry) == dirs \ Range(registry)

\* services_to_reload of _reload_services (the options of the model declare
\* no services)
ServicesToReload(cfg) ==
    UNION ( { cfg.panels[i].services : i \in 1..Len(cfg.panels) }
            \cup { SectionsOf(cfg)[i].services : i \in 1..Len(SectionsOf(cfg)) } )

\* how the write of the settings file ends: it succeeds, or mkdir /
\* write_to_yaml / an overriding _apply raises
ApplyResults == { "ok", "YunohostError", "KeyboardInterrupt", "Exception" }

\* operation_logger.start(), the try block around _apply with its finally,
\* and the first lines of _reload_services
ApplyStep(result) ==
    LET h == [ hist EXCEPT !.cleaned = @ + 1 ]
    IN  /\ pc = "apply"
        /\ oplog' = IF call.operation_logger THEN "started" ELSE oplog
        /\ fs_dirs' = CleanUploadDirs(fs_dirs, upload_dirs)
        /\ UNCHANGED << probe, toml, save_mode, config, filter_key, values, new_values,
                        args, upload_dirs, answers, call >>
        /\ IF result = "ok"
           THEN /\ disk' = ValuesToSave(config, save_mode, values, new_values)
                /\ hist' = [ h EXCEPT !.disk_written = TRUE ]
                /\ todo' = ServicesToReload(config)
                /\ pc' = "reload"
                /\ UNCHANGED << ask, outcome >>
           ELSE /\ Raise(Err(result, "apply"), "apply", h)
                /\ UNCHANGED << disk, todo >>

DoApply == \E result \in ApplyResults : ApplyStep(result)

\* the next service of the loop of _reload_services: any order, nginx last
\* (sort(key="nginx".__eq__)); service_reload_or_restart may raise
ReloadStep(service, ok) ==
    /\ pc = "reload"
    /\ service \in todo
    /\ service # "nginx" \/ todo = { "nginx" }
    /\ UNCHANGED << probe, toml, save_mode, disk, config, filter_key, values, new_values,
                    args, upload_dirs, fs_dirs, answers, call, oplog >>
    /\ IF ok
       THEN /\ todo' = todo \ { service }
            /\ hist' = [ hist EXCEPT !.reloaded = Append(@, service) ]
            /\ UNCHANGED << pc, ask, outcome >>
       ELSE /\ Raise(Err("YunohostError", "service_reload_failed"), "reload", hist)
            /\ todo' = {}

DoReload == \E service \in todo, ok \in BOOLEAN : ReloadStep(service, ok)

\* a set that reports success without waiting for the reloads
Finish_BeforeReloads ==
    /\ pc = "reload"
    /\ UNCHANGED << probe, toml, save_mode, disk, config, filter_key, values,
                    new_values, args, upload_dirs, fs_dirs, answers, call, todo >>
    /\ IF call.operation_logger
       THEN /\ oplog' = "success"
            /\ outcome' = Returned(call)
            /\ pc' = "idle"
            /\ UNCHANGED << ask, hist >>
       ELSE /\ Raise(Err("AttributeError", "NoneType.success"), "finish", hist)
            /\ UNCHANGED oplog

\* the last two lines of set: logger.success, operation_logger.success()
Finish ==
    /\ pc = "reload"
    /\ todo = {}
    /\ UNCHANGED << probe, toml, save_mode, disk, config, filter_key, values, new_values,
                    args, upload_dirs, fs_dirs, answers, call, todo >>
    /\ IF call.operation_logger
       THEN /\ oplog' = "success"
            /\ outcome' = Returned(call)
            /\ pc' = "idle"
            /\ UNCHANGED << ask, hist >>
       ELSE /\ Raise(Err("AttributeError", "NoneType.success"), "finish", hist)
            /\ UNCHANGED oplog

----------------------------------------------------------------------------

Next == DoGet \/ DoSet \/ DoAsk \/ AskInterrupt \/ DoApply \/ DoReload \/ Finish

Spec == Init /\ [][Next]_vars

----------------------------------------------------------------------------
(* The static methods normalize and humanize called directly, one call    *)
(* after another in one process: the class lists of BooleanQuestion are   *)
(* the only state they share.                                              *)

\* the number of direct calls a behaviour makes
MaxProbes == 2

S_oui == << "o","u","i" >>

S_non == << "n","o","n" >>

S_none == << "n","o","n","e" >>

\* the option dicts the methods are called with: a class, and for a
\* boolean the values of its "yes" and "no" keys (1 and 0 when missing)
ProbeOptions ==
    { [ cls |-> c, yes |-> IntV(1), no |-> IntV(0) ] :
        c \in { "StringQuestion", "NumberQuestion", "TagsQuestion",
                "BooleanQuestion" } }
    \cup { [ cls |-> "BooleanQuestion", yes |-> StrV(S_oui), no |-> StrV(S_non) ] }

OptionOf(po) ==
    [ RawOption("o", CASE po.cls = "BooleanQuestion" -> "boolean"
                       [] po.cls = "NumberQuestion"  -> "number"
                       [] po.cls = "TagsQuestion"    -> "tags"
                       [] OTHER                      -> "string")
      EXCEPT !.yes = po.yes, !.no = po.no ]

\* the values the methods are called with, per class
ProbeValues(cls) ==
    CASE cls = "BooleanQuestion" ->
            { StrV(w) : w \in FreshAnswers.yes \cup FreshAnswers.no }
            \cup { StrV(S_oui), StrV(S_non), StrV(S_maybe), StrV(S_none),
                   StrV(<< " ","Y","E","S"," " >>), StrV(<<>>),
                   IntV(1), IntV(0), None }
      [] cls = "NumberQuestion" ->
            { IntV(5), IntV(0), IntV(0 - 3), StrV(S_7), StrV(<< " ","7"," " >>),
              StrV(<< "-","3" >>), StrV(S_abc), StrV(<<>>), None }
      [] cls = "TagsQuestion" ->
            { ListV(<< << "a" >>, << "b" >> >>),
              ListV(<< << " ","a" >>, << "b"," " >> >>),
              ListV(<< << "a" >> >>),
              StrV(<< "a",",","b" >>), StrV(<< " ","a",",","b"," " >>),
              StrV(<<>>) }
      [] OTHER ->
            { StrV(S_abc), StrV(<< " ","a","b","c"," " >>), StrV(<<>>), IntV(5) }

\* what a direct call leaves in probe
Probed(fn, po, v, r, r2) ==
    [ fn |-> fn, n |-> probe.n + 1, cls |-> po.cls, v |-> v,
      yes |-> po.yes, no |-> po.no, before |-> answers, r |-> r, r2 |-> r2 ]

\* the main operations are not running
PanelIdle ==
    UNCHANGED << toml, save_mode, disk, config, filter_key, values, new_values,
                 args, upload_dirs, fs_dirs, pc, call, oplog, ask, todo, outcome,
                 hist >>

\* question_class.normalize(v, option)
ProbeNormalize(po, v) ==
    LET r == Normalize(po.cls, v, OptionOf(po), answers)
    IN  /\ probe.n < MaxProbes
        /\ probe' = Probed("normalize", po, v, r, r)
        /\ answers' = r.answers
        /\ PanelIdle

\* question_class.normalize(question_class.humanize(v, option), option),
\* then question_class.normalize(v, option): r and r2
ProbeRoundTrip(po, v) ==
    LET o == OptionOf(po)
        h == Humanize(po.cls, v, o, answers)
        r == IF h.err # NoErr THEN h ELSE Normalize(po.cls, h.val, o, h.answers)
        r2 == Normalize(po.cls, v, o, r.answers)
    IN  /\ probe.n < MaxProbes
        /\ probe' = Probed("roundtrip", po, v, r, r2)
        /\ answers' = r2.answers
        /\ PanelIdle

\* question_class.normalize(question_class.normalize(v, option), option):
\* the inner call is r2, the outer call r
ProbeTwice(po, v) ==
    LET o == OptionOf(po)
        r2 == Normalize(po.cls, v, o, answers)
        r == IF r2.err # NoErr THEN r2 ELSE Normalize(po.cls, r2.val, o, r2.answers)
    IN  /\ probe.n < MaxProbes
        /\ probe' = Probed("twice", po, v, r, r2)
        /\ answers' = r.answers
        /\ PanelIdle

DoNormalize == \E po \in ProbeOptions : \E v \in ProbeValues(po.cls) : ProbeNormalize(po, v)

DoRoundTrip == \E po \in ProbeOptions : \E v \in ProbeValues(po.cls) : ProbeRoundTrip(po, v)

DoTwice == \E po \in ProbeOptions : \E v \in ProbeValues(po.cls) : ProbeTwice(po, v)

InitFn ==
    /\ toml = "absent"
    /\ save_mode = "full"
    /\ disk = EmptyMap
    /\ config = EmptyConfig
    /\ filter_key = <<>>
    /\ values = EmptyMap
    /\ new_values = EmptyMap
    /\ args = EmptyMap
    /\ upload_dirs = <<>>
    /\ fs_dirs = {}
    /\ answers = FreshAnswers
    /\ pc = "idle"
    /\ call = NoCall
    /\ oplog = "none"
    /\ ask = NoAsk
    /\ todo = {}
    /\ outcome = NoOutcome
    /\ hist = NoHist
    /\ probe = NoProbe

NextFn == DoNormalize \/ DoRoundTrip \/ DoTwice

SpecFn == InitFn /\ [][NextFn]_vars

----------------------------------------------------------------------------
(* What the description declares, read off the file itself and not off   *)
(* the loaded tree                                                        *)

Declared == ReadToml(toml)

\* (panel, section, option) of every declared option
DeclaredPaths ==
    { << i, j, k >> \in (1..3) \X (1..3) \X (1..3) :
        /\ i <= Len(Declared.panels)
        /\ j <= Len(Declared.panels[i].sections)
        /\ k <= Len(Declared.panels[i].sections[j].options) }

PanelId(p) == Declared.panels[p[1]].id

SectionId(p) == Declared.panels[p[1]].sections[p[2]].id

OptionAt(p) == Declared.panels[p[1]].sections[p[2]].options[p[3]]

\* the declared options a filter key selects: every segment given names the
\* panel, the section, the option
Selected(fk) ==
    { p \in DeclaredPaths :
        /\ Len(fk) >= 1 => PanelId(p) = fk[1]
        /\ Len(fk) >= 2 => SectionId(p) = fk[2]
        /\ Len(fk) >= 3 => OptionAt(p).id = fk[3] }

\* a call has ended
Ended(op) == pc = "idle" /\ call.op = op /\ outcome.status # "none"

SetEnded == Ended("set")

GetEnded == Ended("get")

----------------------------------------------------------------------------
(* C1: every set call that materialized a file answer into a temporary    *)
(* upload directory has deleted every such directory when it returns or   *)
(* raises, whatever the exit path.                                         *)
C1_UploadDirsReleased ==
    (SetEnded /\ hist.made # {}) => hist.made \cap fs_dirs = {}

(* C2: when set has started the operation context and the apply step      *)
(* fails, the context is finalized as failed before the error reaches the *)
(* caller.                                                                 *)
C2_ContextFinalizedAsFailed ==
    (SetEnded /\ call.operation_logger /\ hist.failed_at = "apply")
        => oplog = "failed"

(* C3: for a description that exists and loads, set with value together   *)
(* with args or args_file, or with value and a filter key that has not    *)
(* exactly 3 segments, raises a validation error and has neither read nor *)
(* written the settings file.                                              *)
C3_ValueMisuseRejected ==
    ( /\ call.op = "set"
      /\ hist.load_ok
      /\ call.has_value
      /\ (call.has_args \/ call.has_args_file \/ Len(call.key) # 3) )
    => /\ SetEnded
       /\ outcome.status = "raised"
       /\ outcome.err.cls = "YunohostValidationError"
       /\ ~ hist.disk_read
       /\ ~ hist.disk_written
       /\ disk = hist.before

\* value alone on a 2-segment key of a description that loads: the call has
\* ended on the validation error of the second check
C3_Witness ==
    /\ SetEnded /\ hist.load_ok /\ call.has_value
    /\ Len(call.key) = 2
    /\ outcome.err = Err("YunohostValidationError", "config_cant_set_value_on_section")

----------------------------------------------------------------------------
(* C4: one panel p1, one section s1, one boolean option o1 without        *)
(* default: set("p1.s1.o1", value="yes") persists {"o1": 1} and a         *)
(* following get("p1.s1.o1") returns 1.                                    *)

\* the call set("p1.s1.o1", value="yes") on that description
C4_TheSet ==
    /\ toml = "bool"
    /\ call.op = "set"
    /\ call.key = << "p1", "s1", "o1" >>
    /\ call.has_value /\ call.value = StrV(S_yes)
    /\ ~ call.has_args /\ ~ call.has_args_file

\* the call get("p1.s1.o1") made right after a set with value that wrote
C4_TheGet ==
    /\ toml = "bool"
    /\ GetEnded
    /\ call.key = << "p1", "s1", "o1" >> /\ call.mode = "classic"
    /\ hist.prev = "set_value_written"

C4_Persisted == FromPairs(<< << "o1", IntV(1) >> >>)

\* the claim as stated (a write that itself fails set aside)
C4_SetThenGet ==
    /\ (C4_TheSet /\ SetEnded /\ hist.failed_at # "apply") => disk = C4_Persisted
    /\ C4_TheGet => (outcome.status = "returned" /\ outcome.bare = IntV(1))

(* C4 as amended: the claim holds when the settings file already holds an *)
(* entry for o1 (and no other); when it holds none, set raises from       *)
(* _hydrate and writes nothing.                                            *)
C4_SetThenGetInitialized ==
    /\ ( /\ C4_TheSet /\ SetEnded /\ hist.failed_at # "apply"
         /\ DOMAIN hist.before = { "o1" } )
       => disk = C4_Persisted
    /\ (C4_TheSet /\ SetEnded /\ "o1" \notin DOMAIN hist.before)
       => /\ outcome.err = Err("YunohostError", "should_be_initialized")
          /\ disk = hist.before
    /\ C4_TheGet => (outcome.status = "returned" /\ outcome.bare = IntV(1))

C4_Witness ==
    /\ C4_TheGet
    /\ hist.before = C4_Persisted
    /\ outcome.bare = IntV(1)

----------------------------------------------------------------------------
(* C5: in diff save mode, after any successful set, the settings file     *)
(* holds no entry whose value equals the declared default of the option   *)
(* with that id.                                                           *)
C5_DiffHoldsNoDefault ==
    (save_mode = "diff" /\ SetEnded /\ outcome.status = "returned")
    => \A p \in DeclaredPaths :
          ~ ( /\ OptionAt(p).has_default
              /\ OptionAt(p).id \in DOMAIN disk
              /\ disk[OptionAt(p).id] = OptionAt(p).default )

----------------------------------------------------------------------------
(* C6: get in classic mode returns, for a 3-segment key, the addressed    *)
(* option's current value bare; for a 2-segment key, a mapping with one   *)
(* entry for each option of the addressed section and none for any other. *)

\* the current value of a declared option: the file's entry, else the default
CurrentValue(p) ==
    IF OptionAt(p).id \in DOMAIN disk THEN disk[OptionAt(p).id]
    ELSE IF OptionAt(p).has_default THEN OptionAt(p).default
    ELSE None

C6_ClassicGetShape ==
    (GetEnded /\ call.mode = "classic" /\ outcome.status = "returned")
    => /\ Len(call.key) = 3 =>
            /\ outcome.kind = "bare"
            /\ \A p \in Selected(call.key) : outcome.bare = CurrentValue(p)
       /\ Len(call.key) = 2 =>
            /\ outcome.kind = "mapping"
            /\ DOMAIN outcome.mapping =
                 { << PanelId(p), SectionId(p), OptionAt(p).id >> :
                     p \in Selected(call.key) }

\* a 2-segment get returned the two options of a section of a description
\* that has other sections
C6_Witness ==
    /\ GetEnded /\ call.mode = "classic" /\ outcome.status = "returned"
    /\ call.key = << "main", "s2" >>
    /\ Cardinality(DOMAIN outcome.mapping) = 2

----------------------------------------------------------------------------
(* C7: in the mapping get returns in classic mode, the value shown for    *)
(* every option that is redact-flagged or of type password is the masking *)
(* string.                                                                 *)
C7_RedactedAreMasked ==
    (GetEnded /\ outcome.kind = "mapping")
    => \A p \in DeclaredPaths :
          LET key == << PanelId(p), SectionId(p), OptionAt(p).id >>
          IN  ( /\ key \in DOMAIN outcome.mapping
                /\ outcome.mapping[key].has_value
                /\ (OptionAt(p).redact \/ OptionAt(p).type = "password") )
              => outcome.mapping[key].value = StrV(S_mask)

----------------------------------------------------------------------------
(* C8: one option's resolution runs normalize+prevalidate at most 5       *)
(* times; off a terminal the first validation failure reaches the caller; *)
(* on a terminal each of the first 4 failures clears the value and        *)
(* re-prompts, and the 5th in a row reaches the caller.                    *)
C8_BoundedRetry ==
    /\ hist.attempts <= 5
    /\ (pc = "ask" /\ ask.i > 0)
       => /\ Interactive(call.iface)
          /\ ask.i <= 4
          /\ hist.attempts = ask.i
          /\ ask.value = None
          /\ WillPrompt
    /\ ( /\ SetEnded /\ hist.failed_at = "ask" /\ hist.attempts > 0
         /\ outcome.err.cls = "YunohostValidationError" )
       => hist.attempts = IF Interactive(call.iface) THEN 5 ELSE 1

\* the fifth failure in a row on a terminal
C8_Witness ==
    /\ SetEnded /\ hist.failed_at = "ask" /\ Interactive(call.iface)
    /\ outcome.err.cls = "YunohostValidationError"
    /\ hist.attempts = 5 /\ hist.prompts = 5

----------------------------------------------------------------------------
(* C9: the load under a filter key raises the unknown-filter-key error    *)
(* exactly when the key selects no option.                                 *)
C9_UnknownKeyIffNothingSelected ==
    ( /\ pc = "idle" /\ call.op # "none"
      /\ TomlExists(toml) /\ Len(call.key) <= 3 )
    => ( outcome.err = Err("YunohostValidationError", "config_unknown_filter_key")
         <=> Selected(call.key) = {} )

----------------------------------------------------------------------------
(* C10: every tree a load returns has option ids that are unique across   *)
(* the tree and that are no reserved keyword.                              *)
C10_LoadedIdsUnique ==
    (call.op # "none" /\ hist.load_ok)
    => /\ \A i, j \in 1..Len(OptionsOf(config)) :
              i # j => OptionsOf(config)[i].id # OptionsOf(config)[j].id
       /\ OptionIds(config) \cap ForbiddenKeywords = {}

----------------------------------------------------------------------------
(* C11: a load rejects every description whose version is not the         *)
(* supported one: an older version and a newer version both end the call  *)
(* with the version error.                                                 *)
C11_OtherVersionsRejected ==
    ( /\ call.op # "none"
      /\ TomlExists(toml) /\ Len(call.key) <= 3
      /\ Declared.version # CONFIG_PANEL_VERSION_SUPPORTED )
    => /\ Ended(call.op)
       /\ outcome.err = Err("YunohostError", "config_version_not_supported")

----------------------------------------------------------------------------
(* C12: with a password option that declares a default in the scope of    *)
(* the filter key, every operation that loads the description, get as     *)
(* well as set, ends with the password-no-default error.                   *)
C12_PasswordDefaultRejected ==
    ( /\ call.op # "none" /\ pc = "idle"
      /\ TomlExists(toml) /\ Len(call.key) <= 3
      /\ \E p \in Selected(call.key) :
            OptionAt(p).type = "password" /\ OptionAt(p).has_default )
    => /\ outcome.status = "raised"
       /\ outcome.err.key = "app_argument_password_no_default"

----------------------------------------------------------------------------
(* C13: boolean normalize returns the yes-value for every input among     *)
(* 1, yes, y, true, t, on and the configured yes token, the no-value for  *)
(* every input among 0, no, n, false, f, off and the configured no token, *)
(* and raises the choice error for every other non-empty input.  An input *)
(* is read as normalize reads it: as text, stripped and in lower case.     *)

C13_YesInputs ==
    { <<"1">>, <<"y","e","s">>, <<"y">>, <<"t","r","u","e">>, <<"t">>, <<"o","n">> }

C13_NoInputs ==
    { <<"0">>, <<"n","o">>, <<"n">>, <<"f","a","l","s","e">>, <<"f">>,
      <<"o","f","f">> }

C13_Text(v) == StrLower(StrStrip(PyStr(v)))

C13_BooleanNormalizeTotal ==
    (probe.fn = "normalize" /\ probe.cls = "BooleanQuestion")
    => LET w     == C13_Text(probe.v)
           isyes == w \in C13_YesInputs \cup { C13_Text(probe.yes) }
           isno  == w \in C13_NoInputs \cup { C13_Text(probe.no) }
       IN  /\ isyes => (probe.r.err = NoErr /\ probe.r.val = probe.yes)
           /\ isno => (probe.r.err = NoErr /\ probe.r.val = probe.no)
           /\ (~ isyes /\ ~ isno /\ ~ IsEmpty(probe.v) /\ probe.v # None)
              => probe.r.err = Err("YunohostValidationError",
                                   "app_argument_choice_invalid")

----------------------------------------------------------------------------
(* C14: for every type that is not secret and every value v of the type   *)
(* (a string; an integer, negative ones included; the yes or no value of  *)
(* a boolean; a list of tags or a comma-separated string),                *)
(* normalize(humanize(v)) = normalize(v).                                  *)

C14_LegallyTyped ==
    CASE probe.cls = "NumberQuestion"  -> probe.v.k = "int"
      [] probe.cls = "BooleanQuestion" -> probe.v \in { probe.yes, probe.no }
      [] probe.cls = "TagsQuestion"    -> probe.v.k \in { "str", "list" }
      [] OTHER                         -> probe.v.k = "str"

C14_RoundTripStable ==
    (probe.fn = "roundtrip" /\ C14_LegallyTyped)
    => (probe.r.err = probe.r2.err /\ probe.r.val = probe.r2.val)

----------------------------------------------------------------------------
(* C15: tags normalize is idempotent: normalize(normalize(x)) =           *)
(* normalize(x) for every x that is a comma-separated string or a list of *)
(* strings, lists whose first or last element carries leading or trailing *)
(* whitespace included.                                                    *)
C15_TagsNormalizeIdempotent ==
    ( /\ probe.fn = "twice" /\ probe.cls = "TagsQuestion"
      /\ probe.v.k \in { "str", "list" } )
    => (probe.r.err = probe.r2.err /\ probe.r.val = probe.r2.val)

----------------------------------------------------------------------------
(* C16: in the resolution of one option, _post_parse_value runs at most   *)
(* once and only after a normalize+prevalidate run on the current value   *)
(* raised nothing; while the option is being re-asked, and when its       *)
(* resolution ends in a validation error, it has not run.                  *)
C16_PostParseOnceAfterValidation ==
    /\ hist.post_parsed <= 1
    /\ hist.post_parsed = 1 => (hist.validated /\ hist.attempts >= 1)
    /\ (pc = "ask" /\ ask.i > 0) => hist.post_parsed = 0
    /\ ( /\ SetEnded /\ hist.failed_at = "ask"
         /\ outcome.err.cls = "YunohostValidationError" )
       => hist.post_parsed = 0

\* an answer refused twice on a terminal, then accepted and post-parsed
C16_Witness ==
    /\ call.op = "set" /\ Interactive(call.iface)
    /\ hist.attempts = 3 /\ hist.validated /\ hist.post_parsed = 1

----------------------------------------------------------------------------
(* C17: within one set call a service is reloaded only after the settings *)
(* file was written, the operation context is marked succeeded only after *)
(* every service of the scope was reloaded, and when the apply step fails *)
(* no service is reloaded and the context is not marked succeeded.         *)
C17_PersistReloadSucceed ==
    call.op = "set"
    => /\ hist.reloaded # <<>> => hist.disk_written
       /\ oplog = "success"
          => /\ hist.disk_written
             /\ Range(hist.reloaded) = ServicesToReload(config)
       /\ hist.failed_at = "apply"
          => (hist.reloaded = <<>> /\ ~ hist.disk_written /\ oplog # "success")

\* a set that wrote the file, reloaded two services and marked its context
\* succeeded
C17_Witness ==
    /\ SetEnded /\ oplog = "success" /\ hist.disk_written
    /\ Len(hist.reloaded) = 2

----------------------------------------------------------------------------
(* C18: a set writes to the settings file no answer that an earlier call  *)
(* resolved: after a set has written, every entry of the file for an      *)
(* option outside the scope of that call is the entry the file held when  *)
(* the call started.                                                       *)
C18_NoStateAcrossCalls ==
    (call.op = "set" /\ hist.disk_written)
    => \A id \in DOMAIN disk :
          id \notin OptionIds(config)
          => (id \in DOMAIN hist.before /\ disk[id] = hist.before[id])

----------------------------------------------------------------------------
(* C19: a set made without an operation context, whose answers resolve,   *)
(* whose write succeeds and whose reloads all succeed, returns without    *)
(* raising.                                                                *)
C19_SetWithoutContextReturns ==
    ( /\ SetEnded /\ ~ call.operation_logger
      /\ hist.disk_written
      /\ hist.failed_at # "reload"
      /\ Range(hist.reloaded) = ServicesToReload(config) )
    => outcome.status = "returned"

----------------------------------------------------------------------------
(* C20: after a set off a terminal whose filter key names a panel or a    *)
(* section has written, every option of the scope that was given no       *)
(* answer and had an entry in the settings file still has that value (in  *)
(* diff mode the entry may be absent instead).                             *)
C20_UnansweredKeepsPersisted ==
    ( /\ call.op = "set" /\ hist.disk_written
      /\ ~ Interactive(call.iface)
      /\ Len(call.key) \in { 1, 2 } )
    => \A id \in OptionIds(config) :
          (id \notin DOMAIN args /\ id \in DOMAIN hist.before)
          => IF id \in DOMAIN disk THEN disk[id] = hist.before[id]
             ELSE save_mode = "diff"

----------------------------------------------------------------------------
(* C21: what boolean normalize returns or raises depends only on its      *)
(* arguments, the value and the yes and no of the option: after any calls *)
(* made before with other options, it is what the same call returns or    *)
(* raises as the first call of a process.                                  *)

\* the same call made as the first call of a process
C21_InFreshProcess ==
    BooleanNormalize(probe.v,
                     OptionOf([ cls |-> probe.cls, yes |-> probe.yes,
                                no |-> probe.no ]),
                     FreshAnswers)

C21_NormalizeIgnoresEarlierCalls ==
    (probe.fn = "normalize" /\ probe.cls = "BooleanQuestion")
    => /\ probe.r.err = C21_InFreshProcess.err
       /\ probe.r.val = C21_InFreshProcess.val

----------------------------------------------------------------------------
(* C22: in full save mode, when a set scoped by a filter key has          *)
(* returned, every entry the settings file held before the call whose id  *)
(* is not an option of that scope is still in the file with the value it  *)
(* had.                                                                    *)
C22_OutOfScopeEntriesKept ==
    (save_mode = "full" /\ SetEnded /\ outcome.status = "returned")
    => \A id \in DOMAIN hist.before :
          id \notin OptionIds(config)
          => (id \in DOMAIN disk /\ disk[id] = hist.before[id])

----------------------------------------------------------------------------
(* C23: a set over several options is all-or-nothing with respect to      *)
(* validation: a call that ends with the validation error of an answer    *)
(* has written nothing, the settings file is exactly what it was when the *)
(* call started, also when answers of other options were resolved earlier *)
(* in the call; and a call writes the file only after the last answer it  *)
(* resolved passed validation.                                             *)
C23_ValidationAllOrNothing ==
    /\ ( /\ SetEnded /\ hist.failed_at = "ask"
         /\ outcome.err.cls = "YunohostValidationError" )
       => (disk = hist.before /\ ~ hist.disk_written)
    /\ (call.op = "set" /\ hist.disk_written) => hist.validated

\* an upload was resolved and materialized, then a later answer of the same
\* call failed validation
C23_Witness ==
    /\ SetEnded /\ hist.failed_at = "ask"
    /\ outcome.err.cls = "YunohostValidationError"
    /\ hist.attempts >= 1 /\ ~ hist.validated
    /\ hist.made # {}
    /\ disk = hist.before /\ DOMAIN disk # {}

====
